---- MODULE Spec2Model ----
(***************************************************************************)
(* simple_parallel::maps -- unordered_map / map.                           *)
(*                                                                         *)
(* One call of unordered_map (or of map, which wraps it) spawns one scoped *)
(* thread per input element.  Every thread owns a clone of the channel's   *)
(* Sender inside a Panicker guard, calls f, sends Packet{idx, Some(val)}   *)
(* and sets all_ok; the guard's destructor sends Packet{idx, None} when    *)
(* all_ok is still false (f panicked).  UnorderedParMap::next receives     *)
(* from the channel; ParMap::next reorders through a BinaryHeap.           *)
(*                                                                         *)
(* Option<T> is modelled as a sequence of length at most one:              *)
(* None is << >> and Some(x) is << x >>.                                   *)
(***************************************************************************)
EXTENDS Integers, Sequences, FiniteSets, TLC

\* ------------------------------------------------------------------ bounds
MaxN == 3      \* longest input sequence
MaxEnds == 2   \* the consumer stops calling next() after this many None

None == << >>
Some(x) == << x >>

VARIABLES
    mode,        \* "unordered": unordered_map was called; "ordered": map was
    input,       \* iter, as the sequence of its elements
    panicOn,     \* the elements on which the closure f panics
    spawned,     \* number of threads spawned so far by unordered_map
    tx,          \* unordered_map's own Sender `tx` has not been dropped
    ptx,         \* the workers whose Panicker holds a live clone of tx
    rxAlive,     \* the Receiver (owned by the iterator) has not been dropped
    chan,        \* packets sent and not yet received, oldest first
    wpc,         \* per worker: position in the spawned closure
    pidx,        \* per worker: the `idx` its closure captured
    elem,        \* per worker: the `elem` its closure captured
    val,         \* per worker: the local `val` (an Option: None before f returns)
    all_ok,      \* per worker: Panicker.all_ok
    calls,       \* per worker: how many times it has invoked f
    sent,        \* per worker: the data of every packet it passed to send(), in order
    looking_for, \* ParMap.looking_for
    queue,       \* ParMap.queue, greatest packet (by Packet::cmp) first
    cpc,         \* caller: "building" inside unordered_map, "idle" between
                 \* calls of next(), "next" inside next()
    out          \* what next() returned so far, oldest first

vars == << mode, input, panicOn, spawned, tx, ptx, rxAlive, chan, wpc, pidx, elem,
           val, all_ok, calls, sent, looking_for, queue, cpc, out >>

N == Len(input)
Idx == 0 .. (MaxN - 1)

\* ------------------------------------------------------------ the closure f
\* f(x): an Option, None standing for a panic inside f.
f(x) == IF x \in panicOn THEN None ELSE Some(x * x)

\* --------------------------------------------------------------- Packet
Packet(idx, data) == [idx |-> idx, data |-> data]

\* usize::cmp
UsizeCmp(a, b) == IF a < b THEN -1 ELSE IF a > b THEN 1 ELSE 0

\* Packet::cmp without the reversal: the natural order of idx
cmpNatural(self, other) == UsizeCmp(self.idx, other.idx)

\* Packet::cmp: reversed, to work with the max-heap
cmp(self, other) == UsizeCmp(other.idx, self.idx)

\* BinaryHeap::push, the heap held as a sequence with its greatest element first
RECURSIVE push(_, _)
push(q, p) ==
    IF q = << >> THEN << p >>
    ELSE IF cmp(p, Head(q)) > 0 THEN << p >> \o q
    ELSE << Head(q) >> \o push(Tail(q), p)

\* BinaryHeap::peek, as an Option
peek(q) == IF q = << >> THEN None ELSE Some(Head(q))

\* a pop that takes the element off the wrong end of the heap
popBack(q) == SubSeq(q, 1, Len(q) - 1)

\* BinaryHeap::pop: the heap that is left
pop(q) == Tail(q)

\* ------------------------------------------------------------- channel
\* a bounded channel of capacity one (mpsc::sync_channel(1)): send waits for
\* room while the Receiver lives
SendReadyBounded == Len(chan) < 1 \/ ~ rxAlive

\* mpsc::channel() is asynchronous and unbounded: send never waits
SendReady == TRUE

\* a send that puts the packet ahead of the queued ones
sendFront(c, p) == IF rxAlive THEN << p >> \o c ELSE c

\* Sender::send: the packet is queued while the Receiver lives; the error
\* returned once the Receiver is gone is ignored by both callers (`let _ =`).
send(c, p) == IF rxAlive THEN Append(c, p) ELSE c

\* only unordered_map's own Sender is looked at, the clones are forgotten
DisconnectedIgnoresClones == ~ tx

\* every Sender has been dropped
Disconnected == ~ tx /\ ptx = {}

\* Receiver::try_recv in place of recv: an empty channel reads as the end
recvTry == IF chan # << >> THEN "Ok" ELSE "Err"

\* Receiver::recv: "Ok" hands over the oldest queued packet, "Err" is
\* RecvError (every Sender dropped and nothing queued), "Block" is the wait
\* for one or the other.
recv ==
    IF chan # << >> THEN "Ok"
    ELSE IF Disconnected THEN "Err"
    ELSE "Block"

\* ---------------------------------------------------------------- Init
\* The code is generic in the element type and in f's result type and never
\* inspects either, so every run is the image, under a renaming of values, of
\* a run on pairwise distinct elements: the inputs are <<1, .., n>>, and f
\* (the square) may panic on any subset of them.
Inputs == { [k \in 1..n |-> k] : n \in 0..MaxN }

Init ==
    /\ mode \in {"unordered", "ordered"}
    /\ input \in Inputs
    /\ panicOn \in SUBSET { input[k] : k \in 1..Len(input) }
    /\ spawned = 0
    /\ tx = TRUE
    /\ ptx = {}
    /\ rxAlive = TRUE
    /\ chan = << >>
    /\ wpc = [i \in Idx |-> "unspawned"]
    /\ pidx = [i \in Idx |-> 0]
    /\ elem = [i \in Idx |-> 0]
    /\ val = [i \in Idx |-> None]
    /\ all_ok = [i \in Idx |-> FALSE]
    /\ calls = [i \in Idx |-> 0]
    /\ sent = [i \in Idx |-> << >>]
    /\ looking_for = 0
    /\ queue = << >>
    /\ cpc = "building"
    /\ out = << >>

\* ------------------------------------------------------ unordered_map
\* an enumeration that counts from one
enumerateFromOne(k) == [idx |-> k + 1, elem |-> input[k + 1]]

\* iter.into_iter().enumerate(): the (idx, elem) it yields after k earlier ones
enumerate(k) == [idx |-> k, elem |-> input[k + 1]]

\* One turn of the spawning iterator: clone tx, spawn the thread for
\* (idx, elem), which the closure captures by move.
Spawn ==
    /\ cpc = "building"
    /\ spawned < N
    /\ ptx' = ptx \cup {spawned}
    /\ wpc' = [wpc EXCEPT ![spawned] = "spawned"]
    /\ pidx' = [pidx EXCEPT ![spawned] = enumerate(spawned).idx]
    /\ elem' = [elem EXCEPT ![spawned] = enumerate(spawned).elem]
    /\ spawned' = spawned + 1
    /\ UNCHANGED << calls, mode, input, panicOn, tx, rxAlive, chan, val, all_ok, sent,
                    looking_for, queue, cpc, out >>

\* unordered_map keeping its own tx alive (stored in the iterator)
ReturnKeepsTx ==
    /\ cpc = "building"
    /\ spawned = N
    /\ cpc' = "idle"
    /\ UNCHANGED << pidx, elem, calls, mode, input, panicOn, spawned, tx, ptx, rxAlive, chan,
                    wpc, val, all_ok, sent, looking_for, queue, out >>

\* The input is exhausted: the iterator is returned and the local tx dropped.
Return ==
    /\ cpc = "building"
    /\ spawned = N
    /\ tx' = FALSE
    /\ cpc' = "idle"
    /\ UNCHANGED << pidx, elem, calls, mode, input, panicOn, spawned, ptx, rxAlive, chan, wpc, val,
                    all_ok, sent, looking_for, queue, out >>

\* ------------------------------------------------------------- worker
\* let mut p = Panicker { .., all_ok: false }; let val = f(elem);
WorkerCall(i) ==
    /\ wpc[i] = "spawned"
    /\ val' = [val EXCEPT ![i] = f(elem[i])]
    /\ calls' = [calls EXCEPT ![i] = @ + 1]
    /\ wpc' = [wpc EXCEPT ![i] = IF f(elem[i]) = None THEN "unwinding"
                                  ELSE "returned"]
    /\ UNCHANGED << pidx, elem, mode, input, panicOn, spawned, tx, ptx, rxAlive,
                    chan, all_ok, sent, looking_for, queue, cpc, out >>

\* the closure forgetting `p.all_ok = true`
AllOkNotSet == FALSE

\* p.all_ok after the success packet has been sent
AllOkAfterSend == TRUE

\* let _ = p.tx.send(Packet { idx: idx, data: Some(val) }); p.all_ok = true;
WorkerSend(i) ==
    /\ wpc[i] = "returned"
    /\ SendReady
    /\ chan' = send(chan, Packet(pidx[i], val[i]))
    /\ sent' = [sent EXCEPT ![i] = Append(@, val[i])]
    /\ all_ok' = [all_ok EXCEPT ![i] = AllOkAfterSend]
    /\ wpc' = [wpc EXCEPT ![i] = "exiting"]
    /\ UNCHANGED << pidx, elem, calls, mode, input, panicOn, spawned, tx, ptx, rxAlive, val,
                    looking_for, queue, cpc, out >>

\* a guard that never sends
PanickerNeverSends(ok) == FALSE

\* Panicker::drop sends the failure packet
PanickerSends(ok) == ~ ok

\* Panicker::drop, then the drop of its tx field: runs on both ways out of
\* the closure, the normal return and the unwinding.
PanickerDrop(i) ==
    /\ wpc[i] \in {"exiting", "unwinding"}
    /\ IF PanickerSends(all_ok[i])
       THEN /\ SendReady
            /\ chan' = send(chan, Packet(pidx[i], None))
            /\ sent' = [sent EXCEPT ![i] = Append(@, None)]
       ELSE UNCHANGED << chan, sent >>
    /\ ptx' = ptx \ {i}
    /\ wpc' = [wpc EXCEPT ![i] = "done"]
    /\ UNCHANGED << pidx, elem, calls, mode, input, panicOn, tx, spawned, rxAlive, val, all_ok,
                    looking_for, queue, cpc, out >>

\* ------------------------------------------------------------ consumer
Ends == Cardinality({k \in 1..Len(out) : out[k].kind = "End"})

\* The consumer calls next() on the iterator it holds.
CallNext ==
    /\ cpc = "idle"
    /\ rxAlive
    /\ Ends < MaxEnds
    /\ cpc' = "next"
    /\ UNCHANGED << pidx, elem, calls, mode, input, panicOn, spawned, tx, ptx, rxAlive, chan, wpc,
                    val, all_ok, sent, looking_for, queue, out >>

\* next() returning None
EndOfSeq == [kind |-> "End", idx |-> 0, data |-> None]

\* a failure packet handed back as None instead of the panic
YieldSwallow(p) == IF p.data = None THEN EndOfSeq
                   ELSE [kind |-> "Some", idx |-> p.idx, data |-> p.data]

\* What next() does with a packet: Some(..) is recorded as "Some", the
\* panic!(..) as "Fatal".  idx is recorded with both (ParMap hands back the
\* data alone; the index is kept to tell which packet it was).
Yield(p) == [kind |-> IF p.data = None THEN "Fatal" ELSE "Some",
             idx |-> p.idx, data |-> p.data]

\* UnorderedParMap::next
UnorderedNext ==
    /\ mode = "unordered"
    /\ cpc = "next"
    /\ recv # "Block"
    /\ IF recv = "Err"
       THEN /\ out' = Append(out, EndOfSeq)
            /\ UNCHANGED chan
       ELSE /\ out' = Append(out, Yield(Head(chan)))
            /\ chan' = Tail(chan)
    /\ cpc' = "idle"
    /\ UNCHANGED << pidx, elem, calls, mode, input, panicOn, spawned, tx, ptx, rxAlive, wpc, val,
                    all_ok, sent, looking_for, queue >>

\* a test that also takes a failure packet as soon as it heads the heap
FoundEager ==
    /\ peek(queue) # None
    /\ peek(queue)[1].idx = looking_for \/ peek(queue)[1].data = None

\* a test that takes whatever heads the heap
FoundAny == peek(queue) # None

\* ParMap::next: self.queue.peek().map_or(false, |x| x.idx == self.looking_for)
Found == peek(queue) # None /\ peek(queue)[1].idx = looking_for

\* the found branch without `self.looking_for += 1`
OrderedPopNoAdvance ==
    /\ mode = "ordered"
    /\ cpc = "next"
    /\ Found
    /\ queue' = pop(queue)
    /\ out' = Append(out, Yield(Head(queue)))
    /\ cpc' = "idle"
    /\ UNCHANGED << pidx, elem, calls, mode, input, panicOn, spawned, tx, ptx,
                    rxAlive, chan, wpc, val, all_ok, sent, looking_for >>

\* ParMap::next, one turn of its loop that finds the wanted packet
OrderedPop ==
    /\ mode = "ordered"
    /\ cpc = "next"
    /\ Found
    /\ queue' = pop(queue)
    /\ looking_for' = looking_for + 1
    /\ out' = Append(out, Yield(Head(queue)))
    /\ cpc' = "idle"
    /\ UNCHANGED << pidx, elem, calls, mode, input, panicOn, spawned, tx, ptx, rxAlive, chan, wpc,
                    val, all_ok, sent >>

\* ParMap::next, one turn of its loop that receives: push and loop again,
\* or return None on RecvError
OrderedRecv ==
    /\ mode = "ordered"
    /\ cpc = "next"
    /\ ~ Found
    /\ recv # "Block"
    /\ IF recv = "Err"
       THEN /\ out' = Append(out, EndOfSeq)
            /\ cpc' = "idle"
            /\ UNCHANGED << chan, queue >>
       ELSE /\ queue' = push(queue, Head(chan))
            /\ chan' = Tail(chan)
            /\ UNCHANGED << out, cpc >>
    /\ UNCHANGED << pidx, elem, calls, mode, input, panicOn, spawned, tx, ptx, rxAlive, wpc, val,
                    all_ok, sent, looking_for >>

\* The iterator is dropped (by the consumer, or by the unwinding of a panic
\* out of next()): the Receiver goes, and with it whatever was queued.
DropIter ==
    /\ cpc = "idle"
    /\ rxAlive
    /\ rxAlive' = FALSE
    /\ chan' = << >>
    /\ queue' = << >>
    /\ UNCHANGED << pidx, elem, calls, mode, input, panicOn, spawned, tx, ptx, wpc, val, all_ok, sent,
                    looking_for, cpc, out >>

Worker(i) == WorkerCall(i) \/ WorkerSend(i) \/ PanickerDrop(i)

Next ==
    \/ Spawn
    \/ Return
    \/ \E i \in Idx : WorkerCall(i)
    \/ \E i \in Idx : WorkerSend(i)
    \/ \E i \in Idx : PanickerDrop(i)
    \/ CallNext
    \/ UnorderedNext
    \/ OrderedPop
    \/ OrderedRecv
    \/ DropIter

Spec == Init /\ [][Next]_vars

\* Threads that can run do run: the spawning call, every worker (f is
\* assumed to return or panic), and the consumer while it is inside next().
\* Whether the consumer calls next() again or drops the iterator is its choice.
FairSpec ==
    /\ Init /\ [][Next]_vars
    /\ WF_vars(Spawn \/ Return)
    /\ \A i \in Idx : WF_vars(Worker(i))
    /\ WF_vars(UnorderedNext \/ OrderedPop \/ OrderedRecv)

\* ------------------------------------------------------------ claims
\* the indices whose worker's call of f panics
FailedIdx == { i \in 0..(N - 1) : f(input[i + 1]) = None }

\* next() has returned None at least once
Exhausted == \E k \in 1..Len(out) : out[k].kind = "End"

\* the positions of out that hold a value or a panic
NonEnd == { k \in 1..Len(out) : out[k].kind # "End" }

\* C1: with an f that panics on no element, the ordered iterator's k-th
\* result is Some(f(input[k])) for each of the N elements in input order,
\* and every result after the N-th is None.
C1_OrderedEqualsSequentialMap ==
    (mode = "ordered" /\ FailedIdx = {}) =>
        \A k \in 1..Len(out) :
            IF k <= N
            THEN /\ out[k].kind = "Some"
                 /\ out[k].idx = k - 1
                 /\ out[k].data = f(input[k])
            ELSE out[k].kind = "End"

C1_Witness ==
    /\ mode = "ordered"
    /\ N = MaxN
    /\ FailedIdx = {}
    /\ Len(out) = N + 1
    /\ out[N].kind = "Some"
    /\ out[N + 1].kind = "End"

\* C2: a worker passes at most one packet to send(), and exactly one once it
\* has finished: Some(val) when f returned, None (from the guard) when f
\* panicked.
C2_ExactlyOneToken ==
    \A i \in 0..(N - 1) :
        /\ Len(sent[i]) <= 1
        /\ wpc[i] = "done" =>
              /\ Len(sent[i]) = 1
              /\ sent[i][1] = f(input[i + 1])
              /\ (sent[i][1] = None) <=> (i \in FailedIdx)

C2_Witness ==
    /\ N >= 2
    /\ \E i, j \in 0..(N - 1) :
          /\ wpc[i] = "done" /\ sent[i] = << None >>
          /\ wpc[j] = "done" /\ sent[j] # << None >> /\ Len(sent[j]) = 1

\* C3, as claimed: when the only worker that fails is the one of index k, the
\* ordered iterator hands back f(input[0]) .. f(input[k-1]) in order, then
\* panics, and never hands back a value of an index above k, also when
\* next() is called again after the panic.
C3_NothingBeyondFailedIndex ==
    \A k \in 0..(N - 1) :
        (mode = "ordered" /\ FailedIdx = {k}) =>
            /\ \A j \in 1..Len(out) :
                  /\ j <= k => /\ out[j].kind = "Some"
                               /\ out[j].idx = j - 1
                               /\ out[j].data = f(input[j])
                  /\ j = k + 1 => out[j].kind = "Fatal" /\ out[j].idx = k
            /\ ~ \E j \in 1..Len(out) : out[j].kind = "Some" /\ out[j].idx > k

\* C4: the unordered iterator returns None only after N results that are not
\* None, and after that only None; no index is reported twice; a value is
\* handed back as (i, f(input[i])).
C4_UnorderedNResults ==
    mode = "unordered" =>
        /\ \A k \in 1..Len(out) : (out[k].kind = "End") <=> (k > N)
        /\ \A j, k \in NonEnd : out[j].idx = out[k].idx => j = k
        /\ \A k \in NonEnd :
              /\ out[k].idx \in 0..(N - 1)
              /\ out[k].kind = "Some" => out[k].data = f(input[out[k].idx + 1])

C4_Witness ==
    /\ mode = "unordered"
    /\ N = MaxN
    /\ Len(out) = N + 1
    /\ out[N + 1].kind = "End"
    /\ out[1].idx = N - 1
    /\ \E k \in 1..N : out[k].kind = "Fatal"
    /\ \E k \in 1..N : out[k].kind = "Some"

\* C5: when exactly one worker fails, an unordered iterator consumed to its
\* end has panicked exactly once among its N results, and has handed back
\* the values of all the other N-1 indices.
C5_OneFailureAmongN ==
    \A k \in 0..(N - 1) :
        (mode = "unordered" /\ FailedIdx = {k} /\ Exhausted) =>
            /\ Cardinality({ j \in 1..Len(out) : out[j].kind = "Fatal" }) = 1
            /\ \A j \in 1..N : out[j].kind # "End"
            /\ { << out[j].idx, out[j].data >> :
                     j \in { j \in 1..Len(out) : out[j].kind = "Some" } }
               = { << i, f(input[i + 1]) >> : i \in (0..(N - 1)) \ {k} }

\* the panic came second of three results, with values before and after it
C5_Witness ==
    /\ mode = "unordered"
    /\ N = 3
    /\ Cardinality(FailedIdx) = 1
    /\ Len(out) = 4
    /\ out[1].kind = "Some"
    /\ out[2].kind = "Fatal"
    /\ out[3].kind = "Some"
    /\ out[4].kind = "End"

\* C6: when either iterator returns None, the failure of every worker that
\* panicked has been raised by an earlier call of next().
C6_FailureNeverExhaustion ==
    \A k \in 1..Len(out) :
        out[k].kind = "End" =>
            \A i \in FailedIdx :
                \E j \in 1..(k - 1) : out[j].kind = "Fatal" /\ out[j].idx = i

C6_Witness ==
    /\ mode = "ordered"
    /\ Cardinality(FailedIdx) = 2
    /\ N = 3
    /\ Exhausted

\* a step in which next() returns None
ReturnsEnd == Len(out') = Len(out) + 1 /\ out'[Len(out')].kind = "End"

\* the packets the iterator has taken out of the channel so far
Received == IF mode = "unordered" THEN Cardinality(NonEnd)
            ELSE looking_for + Len(queue)

\* C7: next() returns None only in a state where the channel is empty, every
\* Sender is gone (unordered_map's own and every worker's), all N workers
\* have finished and all N packets have been received.
C7_EndOnlyWhenClosedAndEmpty ==
    [][ReturnsEnd =>
          /\ chan = << >>
          /\ ~ tx
          /\ ptx = {}
          /\ \A i \in 0..(N - 1) : wpc[i] = "done"
          /\ Received = N]_vars

C7_Witness ==
    /\ N = MaxN
    /\ Exhausted
    /\ FailedIdx # {}
    /\ mode = "unordered"

\* C8: under fair scheduling every call of next() returns.
C8_NextReturns == (cpc = "next") ~> (cpc = "idle")

\* a call of next() has returned after waiting for a worker that panicked
C8_Witness ==
    /\ N = MaxN
    /\ FailedIdx # {}
    /\ cpc = "idle"
    /\ Exhausted

\* C9: every spawned worker calls f once, passes one packet to send() and
\* finishes, whatever the consumer does (next() never called, the iterator
\* dropped early).
C9_WorkersFinishRegardless ==
    \A i \in Idx :
        (wpc[i] # "unspawned") ~>
            (wpc[i] = "done" /\ calls[i] = 1 /\ Len(sent[i]) = 1)

\* the iterator was dropped before any call of next() and all workers finished
C9_Witness ==
    /\ N = MaxN
    /\ ~ rxAlive
    /\ out = << >>
    /\ \A i \in 0..(N - 1) :
          wpc[i] = "done" /\ calls[i] = 1 /\ Len(sent[i]) = 1

\* C10: with an empty input no worker is spawned, a call of next() never
\* waits, and the first call returns None, on both iterators.
C10_EmptyInput ==
    N = 0 =>
        /\ spawned = 0
        /\ ptx = {}
        /\ \A i \in Idx : wpc[i] = "unspawned"
        /\ cpc = "next" => recv = "Err"
        /\ Len(out) >= 1 => out[1].kind = "End"

C10_Witness ==
    /\ N = 0
    /\ mode = "ordered"
    /\ Len(out) = 1
    /\ out[1].kind = "End"

\* C11: exactly N workers are spawned, the one for the element at position i
\* carries index i and that element, and f is called once per element, never
\* a second time (also not for an element on which it panicked).
C11_OneWorkerPerElement ==
    /\ spawned <= N
    /\ cpc # "building" => spawned = N
    /\ \A i \in Idx : (wpc[i] # "unspawned") <=> (i < spawned)
    /\ \A i \in 0..(spawned - 1) :
          /\ pidx[i] = i
          /\ elem[i] = input[i + 1]
          /\ calls[i] <= 1
          /\ wpc[i] # "spawned" => calls[i] = 1

C11_Witness ==
    /\ N = MaxN
    /\ spawned = N
    /\ FailedIdx # {}
    /\ \A i \in 0..(N - 1) : wpc[i] = "done" /\ calls[i] = 1

\* how many of the values handed back so far are v (an Option)
Yielded(v) ==
    Cardinality({ j \in 1..Len(out) : out[j].kind = "Some" /\ out[j].data = v })

\* how many elements of the input are mapped to v by f
Mapped(v) == Cardinality({ j \in 1..N : f(input[j]) = v })

\* C12: with an f that panics on no element, an iterator consumed to its end
\* has handed back every value as many times as f maps an input element to
\* it, and no other value.  The count depends on the input alone, so the
\* unordered and the ordered iterator hand back the same multiset.
C12_SameMultiset ==
    (FailedIdx = {} /\ Exhausted) =>
        /\ \A k \in 1..N : Yielded(f(input[k])) = Mapped(f(input[k]))
        /\ \A j \in 1..Len(out) :
              out[j].kind = "Some" => \E k \in 1..N : out[j].data = f(input[k])
        /\ \A j \in 1..Len(out) : out[j].kind # "Fatal"

\* the unordered iterator, exhausted, having handed the last element back first
C12_Witness ==
    /\ mode = "unordered"
    /\ N = MaxN
    /\ FailedIdx = {}
    /\ Exhausted
    /\ out[1].idx = N - 1
    /\ out[N].idx = 0

\* C13, as claimed: between two calls of next() on the ordered iterator every
\* buffered packet has an index strictly above looking_for.
C13_BufferedStrictlyAbove ==
    (mode = "ordered" /\ cpc = "idle") =>
        \A k \in 1..Len(queue) : queue[k].idx > looking_for

\* C13, amended: every buffered packet has an index of at least looking_for;
\* the packet of index looking_for itself may be buffered between two calls.
C13_BufferedAtLeast ==
    mode = "ordered" =>
        \A k \in 1..Len(queue) : queue[k].idx >= looking_for

\* between two calls, the packet wanted next is already in the buffer
C13_Witness ==
    /\ mode = "ordered"
    /\ cpc = "idle"
    /\ looking_for > 0
    /\ Len(queue) >= 2
    /\ queue[1].idx = looking_for

\* a step in which next() panics
RaisesFatal == Len(out') = Len(out) + 1 /\ out'[Len(out')].kind = "Fatal"

\* C14: the ordered iterator puts a received packet, failure or not, into
\* the buffer without handing anything back; it panics for index k only in a
\* step that starts with looking_for = k, after the k results of the indices
\* below k; and its first panic is for the smallest index whose worker failed.
C14_FailureDeferredToItsTurn ==
    [][mode = "ordered" =>
          /\ Len(queue') > Len(queue) => out' = out
          /\ RaisesFatal =>
                /\ out'[Len(out')].idx = looking_for
                /\ looking_for' = looking_for + 1
                /\ Len(out) = looking_for
                /\ \A j \in 1..Len(out) : out[j].idx = j - 1
                /\ (\A j \in 1..Len(out) : out[j].kind # "Fatal") =>
                       \A i \in FailedIdx : looking_for <= i]_vars

\* the failure packet of index 2 waits in the buffer; index 0 was handed
\* back and the first panic was the one of index 1
C14_Witness ==
    /\ mode = "ordered"
    /\ FailedIdx = {1, 2}
    /\ Len(out) = 2
    /\ out[1].kind = "Some"
    /\ out[2].kind = "Fatal" /\ out[2].idx = 1
    /\ Len(queue) = 1
    /\ queue[1].idx = 2 /\ queue[1].data = None

IsResult(e) == e.kind # "End"

\* the packets behind the values and panics handed back so far, in order
Results ==
    LET r == SelectSeq(out, IsResult)
    IN  [j \in 1..Len(r) |-> Packet(r[j].idx, r[j].data)]

\* every packet sent into the channel so far, in the order of the sends:
\* those already handed back, then those still queued
SendLog == Results \o chan

\* C15: with the unordered iterator the packets are handed back in the order
\* they were sent: a send adds its packet at the end of the log of sends and
\* nothing else ever changes that log, so the i-th result is the i-th packet
\* sent; and the step that takes a packet out of the channel hands that very
\* packet back, as a panic when it is a failure packet.
C15_ArrivalOrder ==
    [][(mode = "unordered" /\ rxAlive') =>
          /\ \/ SendLog' = SendLog
             \/ /\ chan' # << >>
                /\ SendLog' = Append(SendLog, chan'[Len(chan')])
                /\ out' = out
          /\ Len(chan') < Len(chan) =>
                /\ chan' = Tail(chan)
                /\ out' = Append(out,
                       [kind |-> IF Head(chan).data = None THEN "Fatal" ELSE "Some",
                        idx |-> Head(chan).idx, data |-> Head(chan).data])]_vars

\* the panic of index 2 came first, a value of a lower index after it, while
\* a later packet is still queued
C15_Witness ==
    /\ mode = "unordered"
    /\ Len(out) = 2
    /\ out[1].kind = "Fatal" /\ out[1].idx = 2
    /\ out[2].kind = "Some" /\ out[2].idx = 0
    /\ Len(chan) = 1

\* how many packets of index i the sequence q holds
CountIdx(q, i) == Cardinality({ k \in 1..Len(q) : q[k].idx = i })

\* C16: in the ordered iterator no index is twice in the buffer, and the
\* buffer holds at most N - looking_for packets (so at most N).
C16_BufferBound ==
    mode = "ordered" =>
        /\ \A i \in Idx : CountIdx(queue, i) <= 1
        /\ Len(queue) <= N
        /\ Len(queue) <= N - looking_for

\* the buffer as full as it gets: all but the wanted packet are in it
C16_Witness ==
    /\ mode = "ordered"
    /\ N = MaxN
    /\ looking_for = 0
    /\ Len(queue) = N - 1
    /\ cpc = "next"

\* a step in which next() hands back a value or panics
Releases == Len(out') = Len(out) + 1 /\ out'[Len(out')].kind # "End"

\* looking_for is the number of values and panics handed back, at most N
\* (and stays 0 in an unordered iterator, which has no such field)
LookingForCounts ==
    /\ looking_for = (IF mode = "ordered" THEN Cardinality(NonEnd) ELSE 0)
    /\ looking_for <= N

\* C17: looking_for is 0 at the start, grows by exactly one in every step in
\* which the ordered iterator hands back a value or panics, is left alone by
\* every other step, and so is always the number of packets released so far
\* and never above N.
C17_LookingForCountsReleases ==
    [][/\ LookingForCounts
       /\ LookingForCounts'
       /\ looking_for' = looking_for
                         + (IF mode = "ordered" /\ Releases THEN 1 ELSE 0)]_vars

C17_Witness ==
    /\ mode = "ordered"
    /\ N = MaxN
    /\ looking_for = N
    /\ \E j \in 1..Len(out) : out[j].kind = "Fatal"
    /\ \E j \in 1..Len(out) : out[j].kind = "Some"
    /\ Exhausted

\* q without its k-th element
Without(q, k) == SubSeq(q, 1, k - 1) \o SubSeq(q, k + 1, Len(q))

\* C18: a packet leaves the buffer of the ordered iterator only as the one of
\* the least buffered index, only when that index is looking_for, and it is
\* the packet handed back; and while the head of the buffer has the wanted
\* index, next() takes nothing out of the channel.
C18_MinExtraction ==
    [][mode = "ordered" =>
          /\ (rxAlive' /\ Len(queue') < Len(queue)) =>
                \E k \in 1..Len(queue) :
                    /\ queue' = Without(queue, k)
                    /\ queue[k].idx = looking_for
                    /\ \A j \in 1..Len(queue) : queue[k].idx <= queue[j].idx
                    /\ Releases
                    /\ out'[Len(out')].idx = queue[k].idx
                    /\ out'[Len(out')].data = queue[k].data
                    /\ chan' = chan
          /\ (cpc = "next" /\ queue # << >> /\ queue[1].idx = looking_for) =>
                Len(chan') >= Len(chan)]_vars

\* inside next(), after an earlier release: the
\* wanted packet heads a buffer of two
C18_Witness ==
    /\ mode = "ordered"
    /\ cpc = "next"
    /\ looking_for >= 1
    /\ Len(out) = looking_for
    /\ Len(queue) >= 2
    /\ queue[1].idx = looking_for

\* the worker of index i has not passed a packet to send() and has not finished
NotYetSent(i) == sent[i] = << >> /\ wpc[i] # "done"

\* in how many of the four places index i is
Places(i) ==
    (IF NotYetSent(i) THEN 1 ELSE 0) + CountIdx(chan, i) + CountIdx(queue, i)
    + (IF i < looking_for THEN 1 ELSE 0)

\* C19: while the ordered iterator lives, every index below N is in exactly
\* one place: not yet sent by its worker, in the channel, in the buffer, or
\* released (below looking_for).
C19_TokenConservation ==
    (mode = "ordered" /\ rxAlive) => \A i \in 0..(N - 1) : Places(i) = 1

\* three indices in three places: index 0 released, index 2 in the buffer,
\* index 1 in the channel
C19_Witness ==
    /\ mode = "ordered"
    /\ rxAlive
    /\ N = 3
    /\ looking_for = 1
    /\ Len(queue) = 1
    /\ Len(chan) = 1

\* C20: when the ordered iterator returns None, its buffer is empty and
\* looking_for is N.
C20_NothingStrandedAtEnd ==
    [][(mode = "ordered" /\ ReturnsEnd) =>
          /\ queue = << >> /\ queue' = << >>
          /\ looking_for = N /\ looking_for' = N]_vars

\* the stream ended after two panics had been buffered and raised
C20_Witness ==
    /\ mode = "ordered"
    /\ N = MaxN
    /\ Cardinality(FailedIdx) = 2
    /\ Len(out) = N + 1
    /\ out[N + 1].kind = "End"
    /\ rxAlive

====
